---- MODULE Spec2Model ----
(***************************************************************************)
(* Model of src/src/index.js, the controller of the gitleaks action: the   *)
(* promise chain of the identity lookup (then / catch / finally), the      *)
(* license gate and the async function start().                            *)
(*                                                                         *)
(* The collaborators keygen.ValidateKey, gitleaks.Latest, gitleaks.Install,*)
(* gitleaks.Scan, gitleaks.ScanPullRequest and summary.Write are promises: *)
(* each one is called by a segment of start(), and either resolves (the    *)
(* next segment of start() runs) or rejects.  start() has no try/catch and *)
(* its promise is dropped by the finally callback, so a rejection is an    *)
(* unhandled rejection that ends the process.                              *)
(***************************************************************************)
EXTENDS Integers, Sequences, FiniteSets, TLC

VARIABLES
    pc,                           \* position of the controller
    eventType,                    \* process.env.GITHUB_EVENT_NAME
    license,                      \* process.env.GITLEAKS_LICENSE is non-empty
    versionSet,                   \* process.env.GITLEAKS_VERSION is non-empty
    gitleaksEnableSummary,
    gitleaksEnableUploadArtifact,
    EXIT_CODE_LEAKS_DETECTED,     \* gitleaks.EXIT_CODE_LEAKS_DETECTED
    shouldValidate,
    userType,                     \* outcome of the identity lookup
    gate,                         \* "undecided", "passed", "failed"
    exitCode,                     \* the local exitCode of start()
    calls,                        \* collaborator calls made, in order
    returned,                     \* collaborator calls that resolved, in order
    status,                       \* exit status of the process, None while running
    exitVia                       \* the statement that ended the process

vars == <<pc, eventType, license, versionSet, gitleaksEnableSummary,
          gitleaksEnableUploadArtifact, EXIT_CODE_LEAKS_DETECTED,
          shouldValidate, userType, gate, exitCode, calls, returned,
          status, exitVia>>

env == <<eventType, license, versionSet, gitleaksEnableSummary,
         gitleaksEnableUploadArtifact, EXIT_CODE_LEAKS_DETECTED>>

None == "none"

\* status of a process that is still running
Running == -1

\* Largest exit code a scan executor returns in the model.
MaxExitCode == 3

ExitCodes == 0..MaxExitCode

\* The leak sentinel lives in gitleaks.js; it is neither 0 (clean) nor 1
\* (the normalized code of the controller).
LeakSentinels == 2..MaxExitCode

supportedEvents == {"push", "pull_request", "workflow_dispatch"}

EventTypes == supportedEvents \cup {"issues", "schedule"}

\* user.data.type as returned by GET /users/{username}
UserTypes == {"Organization", "User", "Bot"}

\* the promises start() awaits
Collaborators == {"ValidateKey", "Latest", "Install", "Scan", "ScanPullRequest", "Write"}

Executors == {"Scan", "ScanPullRequest"}

\* Exit status of a node process ended by an unhandled promise rejection
\* (node 15 and later: the rejection is thrown as an uncaught exception).
UnhandledRejectionExit == 1

Count(s, x) == Cardinality({i \in DOMAIN s : s[i] = x})

Called(x) == Count(calls, x) > 0

Returned(x) == Count(returned, x) > 0

\* the classification of the owner that the lookup produced
Classification ==
    IF userType = "User" THEN "Individual"
    ELSE IF userType = "Organization" THEN "Organization"
    ELSE "Unknown"

Init ==
    /\ pc = "request"
    /\ eventType \in EventTypes
    /\ license \in BOOLEAN
    /\ versionSet \in BOOLEAN
    /\ gitleaksEnableSummary \in BOOLEAN
    /\ gitleaksEnableUploadArtifact \in BOOLEAN
    /\ EXIT_CODE_LEAKS_DETECTED \in LeakSentinels
    /\ shouldValidate = TRUE
    /\ userType = None
    /\ gate = "undecided"
    /\ exitCode = 0
    /\ calls = <<>>
    /\ returned = <<>>
    /\ status = Running
    /\ exitVia = None

\* process.exit(code) reached at the statement `via`
ProcessExit(code, via) ==
    /\ pc' = "exited"
    /\ status' = code
    /\ exitVia' = via
    /\ UNCHANGED calls

\* await of a collaborator: the call is made and start() is suspended on it
Call(name) ==
    /\ pc' = name
    /\ calls' = Append(calls, name)
    /\ UNCHANGED <<status, exitVia>>

\* the switch without the assignment of case "User"
ShouldValidateKept(t) == shouldValidate

\* a switch that asks validation of organizations only
ShouldValidateOrgOnly(t) == IF t = "Organization" THEN shouldValidate ELSE FALSE

\* the switch of the then callback, lines 57-74
ShouldValidateAfter(t) == IF t = "User" THEN FALSE ELSE shouldValidate

\* the then callback, lines 54-75
ThenCallback ==
    /\ pc = "request"
    /\ \E t \in UserTypes :
        /\ userType' = t
        /\ shouldValidate' = ShouldValidateAfter(t)
    /\ pc' = "finally"
    /\ UNCHANGED <<env, gate, exitCode, calls, returned, status, exitVia>>

\* a catch callback that fails the run on a failed lookup
CatchCallbackFatal ==
    /\ pc = "request"
    /\ userType' = "failed"
    /\ pc' = "exited"
    /\ status' = 1
    /\ exitVia' = "catch"
    /\ UNCHANGED <<env, shouldValidate, gate, exitCode, calls, returned>>

\* the catch callback, lines 76-80: the lookup rejected (or the then
\* callback threw); only a warning is logged
CatchCallback ==
    /\ pc = "request"
    /\ userType' = "failed"
    /\ pc' = "finally"
    /\ UNCHANGED <<env, shouldValidate, gate, exitCode, calls, returned, status, exitVia>>

\* a gate that asks a license of confirmed organizations only
MissingLicenseOrgOnly == shouldValidate /\ ~license /\ userType = "Organization"

\* line 83: shouldValidate && !process.env.GITLEAKS_LICENSE
MissingLicense == shouldValidate /\ ~license

\* line 87
MissingLicenseExit == 1

\* an event check that lets every event through
SupportedAny(e) == TRUE

\* line 99: supportedEvents.includes(eventType)
Supported(e) == e \in supportedEvents

\* line 101
UnsupportedEventExit == 1

\* lines 109-117: exitCode is declared, then the version is resolved: with
\* GITLEAKS_VERSION set gitleaks.Latest is short-circuited away
checkVersion ==
    /\ exitCode' = 0
    /\ IF versionSet THEN Call("Install") ELSE Call("Latest")

\* start() with the validation of the key placed before the event check
startValidatingFirst ==
    IF shouldValidate
    THEN Call("ValidateKey") /\ UNCHANGED exitCode
    ELSE IF ~Supported(eventType)
         THEN ProcessExit(UnsupportedEventExit, "unsupported") /\ UNCHANGED exitCode
         ELSE checkVersion

\* start() without the validation of the key
startUnvalidated ==
    IF ~Supported(eventType)
    THEN ProcessExit(UnsupportedEventExit, "unsupported") /\ UNCHANGED exitCode
    ELSE checkVersion

\* start() up to its first await, lines 96-117
start ==
    IF ~Supported(eventType)
    THEN ProcessExit(UnsupportedEventExit, "unsupported") /\ UNCHANGED exitCode
    ELSE IF shouldValidate
         THEN Call("ValidateKey") /\ UNCHANGED exitCode
         ELSE checkVersion

\* the finally callback, lines 81-92: the license gate, then start()
FinallyCallback ==
    /\ pc = "finally"
    /\ IF MissingLicense
       THEN /\ gate' = "failed"
            /\ ProcessExit(MissingLicenseExit, "gate")
            /\ UNCHANGED exitCode
       ELSE /\ gate' = "passed"
            /\ start
    /\ UNCHANGED <<env, shouldValidate, userType, returned>>

\* keygen.ValidateKey resolved: start() resumes at line 109
ValidateKeyResolves ==
    /\ pc = "ValidateKey"
    /\ returned' = Append(returned, "ValidateKey")
    /\ checkVersion
    /\ UNCHANGED <<env, shouldValidate, userType, gate>>

\* keygen.ValidateKey found the key invalid and failed the run itself
ValidateKeyFails ==
    /\ pc = "ValidateKey"
    /\ \E code \in 1..MaxExitCode : ProcessExit(code, "keygen")
    /\ UNCHANGED <<env, shouldValidate, userType, gate, exitCode, returned>>

\* gitleaks.Latest resolved: start() resumes at line 116 and installs
LatestResolves ==
    /\ pc = "Latest"
    /\ returned' = Append(returned, "Latest")
    /\ Call("Install")
    /\ UNCHANGED <<env, shouldValidate, userType, gate, exitCode>>

\* a dispatch that runs the plain scan for every supported event
ExecutorAlwaysScan(e) ==
    IF e \in supportedEvents THEN "Scan" ELSE None

\* lines 128-147: the executor chosen for the event type
Executor(e) ==
    IF e = "push" THEN "Scan"
    ELSE IF e = "workflow_dispatch" THEN "Scan"
    ELSE IF e = "pull_request" THEN "ScanPullRequest"
    ELSE None

\* an interpretation that only fails the run for the leak sentinel
FinalExitCodeLeaksOnly(c) ==
    IF c = EXIT_CODE_LEAKS_DETECTED THEN 1 ELSE 0

\* lines 154-162: the exit status the interpreter ends the process with
FinalExitCode(c) ==
    IF c = 0 THEN 0
    ELSE IF c = EXIT_CODE_LEAKS_DETECTED THEN 1
    ELSE c

\* lines 154-162: with exitCode 0 start() returns and the process ends with
\* status 0, otherwise process.exit is called
interpret(c) == ProcessExit(FinalExitCode(c), "interpreter")

\* lines 149-162 with the interpretation placed before the summary: the
\* process.exit of the interpretation ends the run unreported
reportAfterInterpret(c) == interpret(c)

\* lines 149-162, entered with exitCode = c
report(c) ==
    IF gitleaksEnableSummary = TRUE
    THEN Call("Write")
    ELSE interpret(c)

\* gitleaks.Install resolved: start() resumes at line 119 and dispatches
InstallResolves ==
    /\ pc = "Install"
    /\ returned' = Append(returned, "Install")
    /\ IF Executor(eventType) = None
       THEN report(exitCode)
       ELSE Call(Executor(eventType))
    /\ UNCHANGED <<env, shouldValidate, userType, gate, exitCode>>

\* a start() that awaits the executor again whenever it reports an
\* execution error
ScanResolvesRetrying ==
    /\ pc \in Executors
    /\ \E c \in ExitCodes :
        /\ exitCode' = c
        /\ IF c \notin {0, EXIT_CODE_LEAKS_DETECTED}
           THEN /\ pc' = pc
                /\ UNCHANGED <<calls, status, exitVia, returned>>
           ELSE /\ report(c)
                /\ returned' = Append(returned, pc)
    /\ UNCHANGED <<env, shouldValidate, userType, gate>>

\* gitleaks.Scan or gitleaks.ScanPullRequest resolved with exit code c
ScanResolves ==
    /\ pc \in Executors
    /\ \E c \in ExitCodes :
        /\ exitCode' = c
        /\ report(c)
    /\ returned' = Append(returned, pc)
    /\ UNCHANGED <<env, shouldValidate, userType, gate>>

\* summary.Write resolved: start() resumes at line 154
WriteResolves ==
    /\ pc = "Write"
    /\ returned' = Append(returned, "Write")
    /\ interpret(exitCode)
    /\ UNCHANGED <<env, shouldValidate, userType, gate, exitCode>>

\* a start() that catches a rejection of keygen.ValidateKey, logs it and
\* goes on to resolve the engine
UnhandledRejectionOfKeyCaught ==
    /\ pc \in Collaborators
    /\ IF pc = "ValidateKey"
       THEN checkVersion
       ELSE ProcessExit(UnhandledRejectionExit, "rejection") /\ UNCHANGED exitCode
    /\ UNCHANGED <<env, shouldValidate, userType, gate, returned>>

\* a rejection that is only warned about: the process ends when the event
\* loop drains, with status 0
UnhandledRejectionWarns ==
    /\ pc \in Collaborators
    /\ ProcessExit(0, "rejection")
    /\ UNCHANGED <<env, shouldValidate, userType, gate, exitCode, returned>>

\* an awaited promise rejected: start() has no try/catch and nobody handles
\* the promise start() returned at line 91
UnhandledRejection ==
    /\ pc \in Collaborators
    /\ ProcessExit(UnhandledRejectionExit, "rejection")
    /\ UNCHANGED <<env, shouldValidate, userType, gate, exitCode, returned>>

Next ==
    \/ ThenCallback
    \/ CatchCallback
    \/ FinallyCallback
    \/ ValidateKeyResolves
    \/ ValidateKeyFails
    \/ LatestResolves
    \/ InstallResolves
    \/ ScanResolves
    \/ WriteResolves
    \/ UnhandledRejection

Spec == Init /\ [][Next]_vars

\* The event loop of node runs the continuation of every settled promise,
\* and every external call eventually resolves or rejects: some step is
\* taken as long as one is possible.
FairSpec == Spec /\ WF_vars(Next)

TypeOK ==
    /\ pc \in {"request", "finally", "exited"} \cup Collaborators
    /\ status \in {Running} \cup ExitCodes
    /\ exitCode \in ExitCodes
    /\ gate \in {"undecided", "passed", "failed"}
    /\ (pc = "exited") = (status # Running)

Terminated == pc = "exited"

ScanInvoked == Called("Scan") \/ Called("ScanPullRequest")

ScanReturned == Returned("Scan") \/ Returned("ScanPullRequest")

EngineInvoked == Called("Latest") \/ Called("Install")

\* the lookup settled with a classification other than Individual/Organization
UnknownOwner == userType \notin {None, "Organization", "User"}

\* the exit status section 4.5 of the specification prescribes for exit code c
Prescribed(c) ==
    CASE c = 0 -> 0
      [] c # 0 /\ c = EXIT_CODE_LEAKS_DETECTED -> 1
      [] OTHER -> c

\* C1: in every run in which a scan executor was invoked, summary.Write has
\* been invoked exactly once when the process has terminated.  Stated for
\* the runs with the summary enabled, in which lines 149-152 do call
\* summary.Write; with the summary disabled line 150 skips the call.
C1_ReportedExactlyOnce ==
    (Terminated /\ ScanInvoked /\ gitleaksEnableSummary) => Count(calls, "Write") = 1

\* C2: for every exit code c the scan executor returned, the final exit code
\* of the process is 0 for 0, 1 for the leak sentinel, c otherwise.
C2_FinalExitCode ==
    (Terminated /\ ScanReturned) => status = Prescribed(exitCode)

\* C3: owner Organization or Unknown without a license: the run ends at the
\* gate with a non-zero status, and no collaborator (validation, engine,
\* scan, report) is ever called.
C3_GateClosedWithoutLicense ==
    (userType \notin {None, "User"} /\ ~license) =>
        /\ calls = <<>>
        /\ gate # "passed"
        /\ pc \in {"finally", "exited"}
        /\ Terminated => (status # 0 /\ exitVia = "gate")

C3_Witness ==
    /\ Terminated
    /\ Classification = "Organization"
    /\ ~license
    /\ exitVia = "gate"

\* C4: owner type "User": the gate lets the run reach start() whatever the
\* license; the missing-license exit is never taken and keygen.ValidateKey
\* is never called.
C4_IndividualExempt ==
    (userType = "User") =>
        /\ ~shouldValidate
        /\ gate # "failed"
        /\ exitVia # "gate"
        /\ ~Called("ValidateKey")
        /\ pc # "finally" => gate = "passed"

C4_Witness ==
    /\ userType = "User"
    /\ ~license
    /\ gate = "passed"
    /\ ScanInvoked

\* C5: an unsupported event kind: the run ends with the fixed non-zero exit
\* code of the gate or of the event check, and no scan executor is invoked.
C5_UnsupportedEventNeverScans ==
    (eventType \notin {"push", "pull_request", "workflow_dispatch"}) =>
        /\ ~ScanInvoked
        /\ pc \in {"request", "finally", "exited"}
        /\ Terminated => (status = 1 /\ exitVia \in {"gate", "unsupported"})

C5_Witness ==
    /\ Terminated
    /\ eventType = "issues"
    /\ exitVia = "unsupported"

\* C6: the exit code of a license-gate failure and the exit code of an
\* unsupported event are non-zero and different from 1.
C6_FatalCodesDistinctFromLeaks ==
    (Terminated /\ exitVia \in {"gate", "unsupported"}) => status \notin {0, 1}

\* C7: the engine is resolved or installed, and a scan run, only after the
\* gate was decided and passed: the credential check was evaluated and, when
\* validation is required, keygen.ValidateKey has resolved; a gated-out run
\* calls neither.
C7_GateBeforeEngine ==
    /\ (EngineInvoked \/ ScanInvoked) =>
          /\ gate = "passed"
          /\ ~(shouldValidate /\ ~license)
          /\ shouldValidate => (Returned("ValidateKey") /\ calls[1] = "ValidateKey")
    /\ gate = "failed" => calls = <<>>
    /\ gate = "undecided" => calls = <<>>

C7_Witness ==
    /\ shouldValidate
    /\ Returned("ValidateKey")
    /\ Called("Install")
    /\ ScanInvoked

\* C8: a scan executor that rejects is caught: summary.Write is still called
\* (when the summary is enabled) and the process ends through the outcome interpreter with an
\* execution-error exit code.
C8_ExecutorFailureReported ==
    (Terminated /\ ScanInvoked /\ ~ScanReturned) =>
        /\ gitleaksEnableSummary => Called("Write")
        /\ exitVia = "interpreter"
        /\ status \notin {0, 1}

\* C9: when summary.Write fails, the final exit code is still the one the
\* exit code of the scan determines.
C9_ReporterFailureRecovered ==
    (Terminated /\ Called("Write") /\ ~Returned("Write")) =>
        status = Prescribed(exitCode)

\* C10: a failed lookup or an unexpected owner type never ends the run: the
\* run goes on to the license gate, with validation enforced as for an
\* organization.
C10_UnknownOwnerStillGated ==
    UnknownOwner =>
        /\ shouldValidate
        /\ pc # "request"
        /\ Terminated => gate # "undecided"
        /\ gate = "passed" => license
        /\ gate = "failed" => ~license
        /\ EngineInvoked => Returned("ValidateKey")

C10_Witness ==
    /\ userType = "failed"
    /\ gate = "passed"
    /\ Returned("ValidateKey")
    /\ EngineInvoked

\* keygen.ValidateKey was called and did not resolve: the key was refused
ValidationFailed == Terminated /\ Called("ValidateKey") /\ ~Returned("ValidateKey")

\* C11: when validation is required and keygen.ValidateKey fails, the gate
\* fails closed: the engine is never resolved or installed, no scan is run,
\* nothing is reported and the run ends with a non-zero exit code.
C11_ValidationFailsClosed ==
    (Called("ValidateKey") /\ ~Returned("ValidateKey")) =>
        /\ shouldValidate /\ license
        /\ calls = <<"ValidateKey">>
        /\ Terminated => status # 0

C11_Witness ==
    /\ ValidationFailed
    /\ Classification \in {"Organization", "Unknown"}
    /\ license
    /\ exitVia = "rejection"

\* C12: the outcome classes are told apart by the final exit code: status 1
\* only for LeaksDetected, status 0 only for Clean, and an execution error
\* never 0 or 1.
C12_OutcomesDistinguishable ==
    Terminated =>
        /\ status = 1 => (ScanReturned /\ exitCode = EXIT_CODE_LEAKS_DETECTED)
        /\ status = 0 => (ScanReturned /\ exitCode = 0)
        /\ (ScanReturned /\ exitCode \notin {0, EXIT_CODE_LEAKS_DETECTED}) => status \notin {0, 1}

\* C13: once a scan outcome exists it alone determines the final exit code.
\* Two runs in which the executor returned the same exit code end alike
\* exactly when the status of every such run is one function of that code;
\* the runs that end at lines 154-162 fix that function, so the claim is
\* that every run with an outcome ends through the interpretation of lines
\* 154-162, whatever the flags, the event and the owner.
C13_OutcomeAloneDecides ==
    (Terminated /\ ScanReturned) =>
        /\ exitVia = "interpreter"
        /\ status = FinalExitCode(exitCode)

\* C14: a run that reaches the dispatch with a supported event makes exactly
\* one executor call: gitleaks.Scan for push and workflow_dispatch,
\* gitleaks.ScanPullRequest for pull_request; never both, never twice.
C14_OneExecutorCall ==
    /\ Count(calls, "Scan") + Count(calls, "ScanPullRequest") <= 1
    /\ (Returned("Install") /\ eventType \in {"push", "workflow_dispatch"}) =>
          (Count(calls, "Scan") = 1 /\ ~Called("ScanPullRequest"))
    /\ (Returned("Install") /\ eventType = "pull_request") =>
          (Count(calls, "ScanPullRequest") = 1 /\ ~Called("Scan"))
    /\ ScanInvoked => Returned("Install")

C14_Witness ==
    /\ eventType = "pull_request"
    /\ Returned("Install")
    /\ Returned("ScanPullRequest")
    /\ Terminated

\* the order in which start() awaits its collaborators
Rank(x) ==
    CASE x = "ValidateKey" -> 1
      [] x = "Latest" -> 2
      [] x = "Install" -> 3
      [] x \in Executors -> 4
      [] x = "Write" -> 5

\* the outcome interpretation of lines 154-162 has run
Interpreted == exitVia = "interpreter"

EngineFailed ==
    \/ Called("Latest") /\ ~Returned("Latest")
    \/ Called("Install") /\ ~Returned("Install")

\* C16: when gitleaks.Latest or gitleaks.Install fails, the run ends as a
\* failure before scanning: no executor and no reporter is invoked and the
\* exit code is not 0.
C16_EngineFailureFatal ==
    (Terminated /\ EngineFailed) =>
        /\ ~ScanInvoked
        /\ ~Called("Write")
        /\ status # 0

C16_Witness ==
    /\ Terminated
    /\ Called("Install")
    /\ ~Returned("Install")
    /\ exitVia = "rejection"

\* C17: provided every external call eventually returns or fails, every
\* run eventually terminates with a numeric exit code.
C17_Terminates == <>(Terminated /\ status \in ExitCodes)

C17_Witness ==
    /\ Terminated
    /\ Interpreted
    /\ exitCode \notin {0, 1, EXIT_CODE_LEAKS_DETECTED}
    /\ status = exitCode

\* C18: the process exits with 0 only when a scan executor was invoked and
\* returned 0: no gate failure, unsupported event, validation failure,
\* engine failure, executor failure or reporter failure ends the run with 0.
C18_ZeroOnlyWhenClean ==
    (Terminated /\ status = 0) =>
        /\ ScanInvoked
        /\ ScanReturned
        /\ exitCode = 0
        /\ Interpreted
        /\ gate = "passed"

C18_Witness ==
    /\ Terminated
    /\ status = 0
    /\ returned = <<"ValidateKey", "Install", "ScanPullRequest", "Write">>

C20_ShouldValidateStable ==
    /\ shouldValidate = TRUE
    /\ [][(shouldValidate' # shouldValidate) =>
            /\ shouldValidate = TRUE
            /\ shouldValidate' = FALSE
            /\ pc = "request"
            /\ gate = "undecided"
            /\ gate' = "undecided"
            /\ userType' = "User"]_vars
    /\ [](gate # "undecided" => (shouldValidate <=> userType # "User"))

C20_Witness ==
    /\ ~shouldValidate
    /\ userType = "User"
    /\ gate = "passed"
    /\ Called("Install")
====
